---- MODULE Spec2Model ----
(***************************************************************************)
(* State-machine model of updater.py: the exclusion filter, the digest     *)
(* comparator, the in-place replacement engine, one pass of                *)
(* check + update, the cron-driven scheduler loop of main() and its        *)
(* KeyboardInterrupt handler; and of notification.py run as a program:     *)
(* the tests of the sink flags and the calls of the sink functions.        *)
(*                                                                         *)
(* Strings that the code inspects character by character (image            *)
(* references, exclusion patterns, digests, the AUTO_UPDATE and LOG_LEVEL   *)
(* values) are sequences of one-character strings; names that are only     *)
(* compared for equality are plain strings.  Times are seconds.  A step    *)
(* of a pass ends with a call to the runtime or the registry, so that      *)
(* KeyboardInterrupt can arrive between any two calls and between a call   *)
(* and the bookkeeping that follows it.                                    *)
(***************************************************************************)
EXTENDS Integers, Sequences, FiniteSets, TLC

VARIABLES
    envFile,            \* the .env file: raw key/value content
    containers,         \* the runtime: every container, in listing order
    local,              \* the local image store: reference -> RepoDigests
    registry,           \* the registry: reference -> current descriptor digest
    nextId,             \* the next container id the runtime hands out
    clock,              \* wall-clock time
    pc,                 \* position of the process
    exitCode,           \* exit status once pc = "exited"
    mode,               \* "scheduled" or "oneshot", decided by main()
    watchless_schedule, \* main(): the cron expression in use
    now,                \* main(): now of the current loop iteration
    last_run,           \* main(): last_run
    exclude_containers, \* DockerUpdateChecker.exclude_containers
    exclude_images,     \* DockerUpdateChecker.exclude_images
    auto_update,        \* the auto_update flag of the current pass
    container_images,   \* check_for_updates(): containers
    idx,                \* index of the container a loop is at
    updates_available,  \* results['updates_available']
    up_to_date,         \* results['up_to_date']
    successful,         \* update_containers(): successful
    failed,             \* update_containers(): failed
    snapshot,           \* update_containers(): config/host_config/network_settings
    new_container,      \* update_containers(): id of new_container
    netIdx,             \* update_containers(): position in networks[1:]
    ops,                \* runtime calls issued in the current pass
    containers0,        \* the runtime's containers when the pass began
    probed,             \* what the store and the registry answered in the pass
    fetch_error,        \* fetch_container_images(): whose read raised
    local_digest,       \* check_for_updates(): local_digest
    remote_digest,      \* check_for_updates(): remote_digest
    runs,               \* completed scheduled passes: [start, end]
    t0,                 \* the time main() was started
    passes,             \* check/update passes begun by this process
    signalled,          \* where the process was when KeyboardInterrupt arrived
    setup,              \* notification.py: setup, the notification_config
    invoked,            \* notification.py: the sink functions called, in order
    dispatched          \* updater.py: reports handed to notification.py

vars == <<envFile, containers, local, registry, nextId, clock, pc, exitCode,
          mode, watchless_schedule, now, last_run, exclude_containers,
          exclude_images, auto_update, container_images, idx,
          updates_available, up_to_date, successful, failed, snapshot,
          new_container, netIdx, ops, containers0, probed, fetch_error,
          local_digest,
          remote_digest, runs, t0, passes, signalled, setup, invoked,
          dispatched>>

worldVars == <<containers, local, registry, nextId>>
schedVars == <<mode, watchless_schedule, now, last_run, runs, t0, passes,
               signalled>>
notifyVars == <<setup, invoked, dispatched>>
policyVars == <<exclude_containers, exclude_images, auto_update>>
checkVars == <<container_images, updates_available, up_to_date, probed,
               fetch_error, local_digest, remote_digest>>
updateVars == <<successful, failed, snapshot, new_container, netIdx>>

None == "None"

\* main(): `last_run = None`, as a time no pass can have started at.
NoRun == -1

(***************************************************************************)
(* Bounds of the exploration.                                              *)
(***************************************************************************)
MaxRuns == 3
MaxTime == 420

(***************************************************************************)
(* Program constants.                                                      *)
(***************************************************************************)
SleepSecs == 30
StopTimeout == 10
FireWindowSecs == 60

(***************************************************************************)
(* Strings.                                                                *)
(***************************************************************************)
\* Python's `p in s` on strings: p is a contiguous substring of s.
Contains(p, s) ==
    \E i \in 0..(Len(s) - Len(p)) : SubSeq(s, i + 1, i + Len(p)) = p

\* Python's s.split(ch)[0]: the part of s before the first ch (all of s
\* when ch does not occur).
SplitFirst(s, ch) ==
    IF \E i \in 1..Len(s) : s[i] = ch
    THEN LET k == CHOOSE i \in 1..Len(s) :
                     /\ s[i] = ch
                     /\ \A j \in 1..(i - 1) : s[j] # ch
         IN  SubSeq(s, 1, k - 1)
    ELSE s

\* Python's str.lower().
UpperLetters == <<"A", "B", "C", "D", "E", "F", "G", "H", "I", "J", "K", "L",
                  "M", "N", "O", "P", "Q", "R", "S", "T", "U", "V", "W", "X",
                  "Y", "Z">>
LowerLetters == <<"a", "b", "c", "d", "e", "f", "g", "h", "i", "j", "k", "l",
                  "m", "n", "o", "p", "q", "r", "s", "t", "u", "v", "w", "x",
                  "y", "z">>

LowerChar(c) ==
    IF \E i \in 1..Len(UpperLetters) : UpperLetters[i] = c
    THEN LowerLetters[CHOOSE i \in 1..Len(UpperLetters) : UpperLetters[i] = c]
    ELSE c

Lower(s) == [i \in 1..Len(s) |-> LowerChar(s[i])]

\* Python's str.upper().
UpperChar(c) ==
    IF \E i \in 1..Len(LowerLetters) : LowerLetters[i] = c
    THEN UpperLetters[CHOOSE i \in 1..Len(LowerLetters) : LowerLetters[i] = c]
    ELSE c

Upper(s) == [i \in 1..Len(s) |-> UpperChar(s[i])]

\* The elements of a sequence.
Range(s) == {s[i] : i \in 1..Len(s)}

(***************************************************************************)
(* The universe the runs are drawn from.                                   *)
(***************************************************************************)
Nginx == <<"n", "g", ":", "1">>
Postgres == <<"p", "g", ":", "5">>
PortRef == <<"h", ":", "5", "/", "n", "g", ":", "1">>
ImageRefs == {Nginx, Postgres, PortRef}
WebImages == {Nginx, PortRef}

\* Descriptor digests ("sha256:..." strings).
D1 == <<"s", ":", "1">>
D2 == <<"s", ":", "2">>

\* A digest string that is absent: Python's None (and the empty string,
\* which `not digest` treats alike).
NoDigest == <<>>

NetLists == {<<"bridge">>, <<"bridge", "x">>, <<"x", "y">>,
             <<"x", "bridge", "y">>, <<"x", "bridge", "y", "z">>}

\* Exclusion settings of the .env file.
Policies ==
    { [names |-> {}, patterns |-> {}],
      [names |-> {"db"}, patterns |-> {}],
      [names |-> {}, patterns |-> {<<"n", "g">>}],
      [names |-> {"web"}, patterns |-> {<<"g", ":", "5">>}] }

\* Raw AUTO_UPDATE values (<<>>: key absent or value empty).
AutoValues == { <<"T", "r", "u", "e">>, <<"f", "a", "l", "s", "e">>,
                <<"t", "r", "u">>, <<>> }

\* Raw WATCHLESS_SCHEDULE values (None: key absent).
CronBad == "bad"
CronDefault == "0 0 * * *"
ValidCrons == {"* * * * *", "*/2 * * * *", "*/5 * * * *", CronDefault}
ScheduleValues == {None, "", CronBad} \cup ValidCrons

StartTimes == {0, 10, 20, 30, 50, 70, 90, 110}

\* Raw LOG_LEVEL values: the key absent, or its value.
LevelUnset == [set |-> FALSE, value |-> <<>>]
LevelSet(value) == [set |-> TRUE, value |-> value]
LevelDebug == LevelSet(<<"d", "e", "b", "u", "g">>)
LevelVerbose == LevelSet(<<"v", "e", "r", "b", "o", "s", "e">>)
LevelBasicFormat ==
    LevelSet(<<"b", "a", "s", "i", "c", "_", "f", "o", "r", "m", "a", "t">>)
LevelBasicFormatMixed ==
    LevelSet(<<"B", "a", "s", "i", "c", "_", "F", "o", "r", "m", "a", "t">>)
LevelValues == {LevelUnset, LevelSet(<<>>), LevelDebug, LevelVerbose,
                LevelBasicFormat, LevelBasicFormatMixed}

\* The sinks of notification.py, in the order __main__ tests them.
Sinks == <<"email", "ntfy", "gotify", "teams", "slack">>
SinkNames == {"email", "ntfy", "gotify", "teams", "slack"}

\* os.getenv("..._NOTIFICATION", default=False): the bool False when the
\* variable is unset, else its string value.
FlagUnset == [set |-> FALSE, value |-> <<>>]
FlagValues ==
    { FlagUnset,
      [set |-> TRUE, value |-> <<"t", "r", "u", "e">>],
      [set |-> TRUE, value |-> <<"T", "r", "u", "e">>],
      [set |-> TRUE, value |-> <<"f", "a", "l", "s", "e">>] }

\* The dicts notification_setup() can return.
notification_setup == [SinkNames -> FlagValues]
RunDurations == {0, 40, 130}

(***************************************************************************)
(* logging.                                                                *)
(***************************************************************************)
\* The names of the levels (logging._nameToLevel) and their numbers.
CRITICAL == <<"C", "R", "I", "T", "I", "C", "A", "L">>
FATAL == <<"F", "A", "T", "A", "L">>
ERROR == <<"E", "R", "R", "O", "R">>
WARNING == <<"W", "A", "R", "N", "I", "N", "G">>
WARN == <<"W", "A", "R", "N">>
INFO == <<"I", "N", "F", "O">>
DEBUG == <<"D", "E", "B", "U", "G">>
NOTSET == <<"N", "O", "T", "S", "E", "T">>
LevelNames == {CRITICAL, FATAL, ERROR, WARNING, WARN, INFO, DEBUG, NOTSET}

LevelNumber(name) ==
    CASE name \in {CRITICAL, FATAL} -> 50
      [] name = ERROR -> 40
      [] name \in {WARNING, WARN} -> 30
      [] name = INFO -> 20
      [] name = DEBUG -> 10
      [] OTHER -> 0

\* The other attributes of the logging module with an upper-case name:
\* the format string BASIC_FORMAT and the dict _STYLES.
BASIC_FORMAT == <<"B", "A", "S", "I", "C", "_", "F", "O", "R", "M", "A", "T">>
STYLES == <<"_", "S", "T", "Y", "L", "E", "S">>

\* getattr(logging, name, logging.INFO).
LoggingAttr(name) ==
    IF name \in LevelNames THEN [type |-> "int", level |-> LevelNumber(name)]
    ELSE IF name = BASIC_FORMAT THEN [type |-> "str", level |-> 0]
    ELSE IF name = STYLES THEN [type |-> "dict", level |-> 0]
    ELSE [type |-> "int", level |-> LevelNumber(INFO)]

\* setLevel(level) raises for a level that is no int and no level name:
\* ValueError for the format string, TypeError for the dict.
SetLevelRaises(level) == level.type # "int"

\* logging.basicConfig(level=name) raises ValueError for a string that is
\* not the name of a level.
BasicConfigRaises(name) == name \notin LevelNames

(***************************************************************************)
(* croniter.                                                               *)
(***************************************************************************)
CronPeriod(expr) ==
    CASE expr = "* * * * *" -> 60
      [] expr = "*/2 * * * *" -> 120
      [] expr = "*/5 * * * *" -> 300
      [] OTHER -> 86400

\* croniter(expr, t).get_next(): the first fire time strictly after t.
cronNext(expr, t) == ((t \div CronPeriod(expr)) + 1) * CronPeriod(expr)

validate_cron_schedule(cron_expression) == cron_expression \in ValidCrons

(***************************************************************************)
(* load_env_file.                                                          *)
(***************************************************************************)
TrueWord == <<"t", "r", "u", "e">>
FalseWord == <<"f", "a", "l", "s", "e">>

\* `log_level = None`, as a name no LOG_LEVEL value can give.
NoLevel == <<>>

\* The LOG_LEVEL line: an absent or empty value keeps None, any other is
\* upper-cased.
ParseLogLevel(raw) ==
    IF raw.set /\ raw.value # <<>> THEN Upper(raw.value) ELSE NoLevel

ParseAutoUpdate(value) ==
    IF value = <<>> THEN FALSE ELSE Contains(Lower(value), TrueWord)

\* The WATCHLESS_SCHEDULE line: an absent or empty value keeps the default.
ParseSchedule(value) ==
    IF value \in {None, ""} THEN CronDefault ELSE value

load_env_file(file) ==
    [ containers |-> file.EXCLUDE_CONTAINERS,
      images |-> file.EXCLUDE_IMAGES,
      log_level |-> ParseLogLevel(file.LOG_LEVEL),
      auto_update |-> ParseAutoUpdate(file.AUTO_UPDATE),
      watchless_schedule |-> ParseSchedule(file.WATCHLESS_SCHEDULE) ]

(***************************************************************************)
(* Filter.                                                                 *)
(***************************************************************************)
\* should_exclude with the pattern tested as a prefix of the image name.
should_exclude_prefix(container_name, image_name, names, patterns) ==
    \/ container_name \in names
    \/ \E exclude_pattern \in patterns :
          /\ Len(exclude_pattern) <= Len(image_name)
          /\ SubSeq(image_name, 1, Len(exclude_pattern)) = exclude_pattern

should_exclude(container_name, image_name, names, patterns) ==
    \/ container_name \in names
    \/ \E exclude_pattern \in patterns : Contains(exclude_pattern, image_name)

\* The containers the runtime lists: the running ones, in listing order.
RECURSIVE Running(_)
Running(cs) ==
    IF cs = <<>> THEN <<>>
    ELSE IF Head(cs).status = "running"
         THEN <<Head(cs)>> \o Running(Tail(cs))
         ELSE Running(Tail(cs))

\* The loop of fetch_container_images over the listed containers.
RECURSIVE FetchLoop(_, _, _)
FetchLoop(listed, names, patterns) ==
    IF listed = <<>> THEN <<>>
    ELSE LET c == Head(listed)
             rest == FetchLoop(Tail(listed), names, patterns)
         IN  IF should_exclude(c.name, c.image, names, patterns)
             THEN rest
             ELSE <<[name |-> c.name, id |-> c.id, image |-> c.image]>>
                  \o rest

\* fetch_container_images when the loop raises after `n` containers were
\* read (n = Len(listed): no error): what was appended so far is returned.
fetch_container_images(listed, n, names, patterns) ==
    FetchLoop(SubSeq(listed, 1, n), names, patterns)

\* The container whose read raised, when the loop raised after n
\* containers ("-": the loop did not raise).
RaisedAt(listed, n) == IF n < Len(listed) THEN listed[n + 1].name ELSE "-"

(***************************************************************************)
(* Digest comparator.                                                      *)
(***************************************************************************)
\* The repository under which the runtime records a pulled reference.
LastIndex(s, ch) ==
    IF \E i \in 1..Len(s) : s[i] = ch
    THEN CHOOSE i \in 1..Len(s) :
             /\ s[i] = ch
             /\ \A j \in (i + 1)..Len(s) : s[j] # ch
    ELSE 0

RepoOf(ref) ==
    LET r == SplitFirst(ref, "@")
    IN  IF LastIndex(r, ":") > LastIndex(r, "/")
        THEN SubSeq(r, 1, LastIndex(r, ":") - 1)
        ELSE r

RepoDigest(repo, digest) == repo \o <<"@">> \o digest

\* Entries of the local image store.
ImageMissing == [present |-> FALSE, RepoDigests |-> <<>>]
ImageNoDigests == [present |-> TRUE, RepoDigests |-> <<>>]
ImageAt(ref, digest) ==
    [present |-> TRUE, RepoDigests |-> <<RepoDigest(RepoOf(ref), digest)>>]

\* Answers of a registry probe for a reference whose digest is d.
ProbeRaises == [raised |-> TRUE, digest |-> NoDigest]
ProbeNoDigest == [raised |-> FALSE, digest |-> NoDigest]
ProbeAnswers(d) == {ProbeRaises, ProbeNoDigest, [raised |-> FALSE, digest |-> d]}

get_local_digest(store, image_name) ==
    IF ~store[image_name].present THEN NoDigest
    ELSE IF store[image_name].RepoDigests = <<>> THEN NoDigest
    ELSE store[image_name].RepoDigests[1]

get_remote_digest(image_name, registry_data) ==
    IF registry_data.raised THEN NoDigest
    ELSE IF registry_data.digest = NoDigest THEN NoDigest
    ELSE RepoDigest(SplitFirst(image_name, ":"), registry_data.digest)

\* Classify without the test of the remote digest.
Classify_no_remote_test(local_d, remote_d) ==
    IF local_d = NoDigest THEN "skip"
    ELSE IF local_d # remote_d THEN "update"
    ELSE "current"

\* The branch check_for_updates takes for one container.
Classify(local_d, remote_d) ==
    IF local_d = NoDigest \/ remote_d = NoDigest THEN "skip"
    ELSE IF local_d # remote_d THEN "update"
    ELSE "current"

(***************************************************************************)
(* The runtime.                                                            *)
(***************************************************************************)
\* The settings of a container that create is given again: Config.Cmd,
\* Config.Env, HostConfig.Binds, HostConfig.PortBindings and
\* HostConfig.RestartPolicy.
ConfigOf(name) ==
    [Cmd |-> <<name, "cmd">>,
     Env |-> <<name, "env">>,
     Binds |-> <<name, "binds">>,
     PortBindings |-> <<name, "ports">>,
     RestartPolicy |-> <<name, "restart">>]

\* A container created without one of these settings has the runtime's
\* default for it.
Default == <<"default">>

Container(name, id, image, nets, status) ==
    [name |-> name, id |-> id, image |-> image, nets |-> nets,
     status |-> status, conf |-> ConfigOf(name)]

\* Position of the container with this id (0: no such container).
IndexOfId(cs, id) ==
    IF \E i \in 1..Len(cs) : cs[i].id = id
    THEN CHOOSE i \in 1..Len(cs) : cs[i].id = id
    ELSE 0

RemoveAt(cs, i) == SubSeq(cs, 1, i - 1) \o SubSeq(cs, i + 1, Len(cs))

NameTaken(cs, name) == \E i \in 1..Len(cs) : cs[i].name = name

\* One runtime call, as recorded in ops.
Op(op, c, arg, ok) == [op |-> op, c |-> c, arg |-> arg, ok |-> ok]

(***************************************************************************)
(* Initial states: a one-shot family over a varied fleet, and a scheduled  *)
(* family over varied start times and cron expressions.                    *)
(***************************************************************************)
Db == Container("db", 1, Postgres, <<"bridge">>, "running")
Web(image, nets) == Container("web", 2, image, nets, "running")

Fleets ==
    {<<>>}
    \cup {<<Web(i, n)>> : i \in WebImages, n \in NetLists}
    \cup {<<Db, Web(i, n)>> : i \in WebImages, n \in NetLists}
    \cup {<<Web(i, n), Db>> : i \in WebImages, n \in NetLists}

SchedFleets == {<<Web(Nginx, <<"x", "y">>)>>}

\* What the local store holds for a reference.
StoreKinds == {"missing", "nodigests", "stored"}

StoreEntry(kind, ref) ==
    CASE kind = "missing" -> ImageMissing
      [] kind = "nodigests" -> ImageNoDigests
      [] OTHER -> ImageAt(ref, D1)

\* The image of "web" in a fleet (Nginx when the fleet has no "web").
WebImageOf(fleet) ==
    IF \E i \in 1..Len(fleet) : fleet[i].name = "web"
    THEN (CHOOSE c \in Range(fleet) : c.name = "web").image
    ELSE Nginx

InitLocals ==
    /\ exitCode = 0
    /\ watchless_schedule = None
    /\ now = 0
    /\ last_run = NoRun
    /\ exclude_containers = {}
    /\ exclude_images = {}
    /\ auto_update = FALSE
    /\ container_images = <<>>
    /\ idx = 0
    /\ updates_available = <<>>
    /\ up_to_date = <<>>
    /\ successful = <<>>
    /\ failed = <<>>
    /\ snapshot = None
    /\ new_container = 0
    /\ netIdx = 0
    /\ ops = <<>>
    /\ containers0 = containers
    /\ probed = <<>>
    /\ fetch_error = "-"
    /\ local_digest = NoDigest
    /\ remote_digest = NoDigest
    /\ runs = <<>>
    /\ t0 = clock
    /\ passes = 0
    /\ signalled = None
    /\ invoked = <<>>
    /\ dispatched = <<>>
    /\ nextId = 3

\* notification.py is not run: no *_NOTIFICATION variable is read.
InitUpdater ==
    /\ pc = "main"
    /\ mode = None
    /\ setup = [sink \in SinkNames |-> FlagUnset]
    /\ InitLocals

\* The image of "web" is in the store as `kind` says and at digest d in
\* the registry; every other image is stored at D1 and at D2 in the registry.
InitWorld(fleets, kinds, digests) ==
    /\ containers \in fleets
    /\ \E kind \in kinds, d \in digests :
         /\ local = [r \in ImageRefs |->
                        IF r = WebImageOf(containers)
                        THEN StoreEntry(kind, r)
                        ELSE ImageAt(r, D1)]
         /\ registry = [r \in ImageRefs |->
                           IF r = WebImageOf(containers) THEN d ELSE D2]

InitOneShot ==
    /\ \E p \in Policies, a \in AutoValues,
          l \in {LevelUnset, LevelBasicFormat} :
         envFile = [EXCLUDE_CONTAINERS |-> p.names,
                    EXCLUDE_IMAGES |-> p.patterns,
                    LOG_LEVEL |-> l,
                    AUTO_UPDATE |-> a,
                    WATCHLESS_SCHEDULE |-> CronBad]
    /\ InitWorld(Fleets, StoreKinds, {D1, D2})
    /\ clock = 0
    /\ InitUpdater

InitScheduled ==
    /\ \E a \in {<<"T", "r", "u", "e">>, <<>>},
          w \in ScheduleValues \ {CronBad},
          l \in {LevelUnset, LevelBasicFormat} :
         envFile = [EXCLUDE_CONTAINERS |-> {},
                    EXCLUDE_IMAGES |-> {},
                    LOG_LEVEL |-> l,
                    AUTO_UPDATE |-> a,
                    WATCHLESS_SCHEDULE |-> w]
    /\ InitWorld(SchedFleets, {"stored"}, {D1, D2})
    /\ clock \in StartTimes
    /\ InitUpdater

\* notification.py run as a program: the module is about to be loaded,
\* with LOG_LEVEL and the *_NOTIFICATION variables in its environment.
InitNotify ==
    /\ \E l \in {LevelUnset, LevelSet(<<>>), LevelDebug, LevelVerbose} :
         envFile = [EXCLUDE_CONTAINERS |-> {},
                    EXCLUDE_IMAGES |-> {},
                    LOG_LEVEL |-> l,
                    AUTO_UPDATE |-> <<>>,
                    WATCHLESS_SCHEDULE |-> None]
    /\ InitWorld({<<>>}, {"stored"}, {D1})
    /\ clock = 0
    /\ pc = "n_load"
    /\ mode = "notification"
    /\ setup \in notification_setup
    /\ InitLocals

\* A scheduled run over a container whose image reference names a
\* registry with a port.
InitRepeat ==
    /\ envFile = [EXCLUDE_CONTAINERS |-> {},
                  EXCLUDE_IMAGES |-> {},
                  LOG_LEVEL |-> LevelUnset,
                  AUTO_UPDATE |-> <<"T", "r", "u", "e">>,
                  WATCHLESS_SCHEDULE |-> "* * * * *"]
    /\ InitWorld({<<Web(PortRef, <<"bridge">>)>>}, {"stored"}, {D1, D2})
    /\ clock = 0
    /\ InitUpdater

\* A run over an empty fleet with each LOG_LEVEL value, in one-shot and
\* in scheduled mode.
InitLevels ==
    /\ \E l \in LevelValues, w \in {CronBad, "* * * * *"} :
         envFile = [EXCLUDE_CONTAINERS |-> {},
                    EXCLUDE_IMAGES |-> {},
                    LOG_LEVEL |-> l,
                    AUTO_UPDATE |-> <<>>,
                    WATCHLESS_SCHEDULE |-> w]
    /\ InitWorld({<<>>}, {"stored"}, {D1})
    /\ clock = 10
    /\ InitUpdater

Init ==
    InitOneShot \/ InitScheduled \/ InitRepeat \/ InitNotify \/ InitLevels

(***************************************************************************)
(* main(): start-up.                                                       *)
(***************************************************************************)
\* The locals of one pass of check_for_updates / update_containers.
BeginPass ==
    /\ container_images' = <<>>
    /\ idx' = 0
    /\ updates_available' = <<>>
    /\ up_to_date' = <<>>
    /\ successful' = <<>>
    /\ failed' = <<>>
    /\ snapshot' = None
    /\ new_container' = 0
    /\ netIdx' = 0
    /\ ops' = <<>>
    /\ probed' = <<>>
    /\ fetch_error' = "-"
    /\ local_digest' = NoDigest
    /\ remote_digest' = NoDigest
    /\ containers0' = containers

\* DockerUpdateChecker(...): docker.from_env() answers, or the process
\* leaves through sys.exit(1).
ConstructChecker(env_config, up) ==
    /\ exclude_containers' = env_config.containers
    /\ exclude_images' = env_config.images
    /\ auto_update' = env_config.auto_update
    /\ IF up
       THEN pc' = "fetch" /\ exitCode' = exitCode
       ELSE pc' = "exited" /\ exitCode' = 1

\* `if env_config['log_level']`: the level is looked up in the logging
\* module and set on the loggers.
LogLevelRaises(log_level) ==
    log_level # NoLevel /\ SetLevelRaises(LoggingAttr(log_level))

\* setLevel raises: nothing in main() catches it, and the process ends
\* with status 1 before the cron expression is tested.
MainLogLevelRaises ==
    /\ pc = "main"
    /\ LogLevelRaises(load_env_file(envFile).log_level)
    /\ pc' = "exited"
    /\ exitCode' = 1
    /\ UNCHANGED <<envFile, notifyVars, worldVars, clock, schedVars,
                   policyVars, checkVars, updateVars, idx, ops, containers0>>

\* The cron expression is invalid: one pass, with the configuration main()
\* loaded.
MainOneShot ==
    /\ pc = "main"
    /\ ~LogLevelRaises(load_env_file(envFile).log_level)
    /\ ~validate_cron_schedule(load_env_file(envFile).watchless_schedule)
    /\ mode' = "oneshot"
    /\ watchless_schedule' = None
    /\ \E up \in BOOLEAN : ConstructChecker(load_env_file(envFile), up)
    /\ BeginPass
    /\ passes' = passes + 1
    /\ UNCHANGED <<envFile, notifyVars, worldVars, clock, now, last_run, runs,
                   t0, signalled>>

\* The cron expression is valid: the scheduler loop is entered.
MainScheduled ==
    /\ pc = "main"
    /\ ~LogLevelRaises(load_env_file(envFile).log_level)
    /\ validate_cron_schedule(load_env_file(envFile).watchless_schedule)
    /\ mode' = "scheduled"
    /\ watchless_schedule' = load_env_file(envFile).watchless_schedule
    /\ last_run' = NoRun
    /\ pc' = "poll"
    /\ UNCHANGED <<envFile, notifyVars, worldVars, clock, exitCode, now, runs,
                   t0, passes, signalled, policyVars, checkVars, updateVars,
                   idx, ops, containers0>>

(***************************************************************************)
(* main(): the scheduler loop.                                             *)
(***************************************************************************)
\* ShouldRun with last_run itself taken for the next fire time.
ShouldRun_since_last(expr, last, t) ==
    IF last = NoRun
    THEN cronNext(expr, t) - t <= FireWindowSecs
    ELSE t >= last

\* The test of one loop iteration: is a pass started at time t?
ShouldRun(expr, last, t) ==
    IF last = NoRun
    THEN cronNext(expr, t) - t <= FireWindowSecs
    ELSE t >= cronNext(expr, last)

\* An iteration that starts no pass.
PollSkip ==
    /\ pc = "poll"
    /\ ~ShouldRun(watchless_schedule, last_run, clock)
    /\ now' = clock
    /\ pc' = "sleep"
    /\ UNCHANGED <<envFile, notifyVars, worldVars, clock, exitCode, mode,
                   watchless_schedule, last_run, runs, t0, passes, signalled,
                   policyVars, checkVars, updateVars, idx, ops, containers0>>

\* PollRun with the configuration of the first pass kept for the later
\* ones.
PollRun_cached ==
    /\ pc = "poll"
    /\ ShouldRun(watchless_schedule, last_run, clock)
    /\ Len(runs) < MaxRuns
    /\ now' = clock
    /\ \E up \in BOOLEAN :
         ConstructChecker(IF passes = 0
                          THEN load_env_file(envFile)
                          ELSE [containers |-> exclude_containers,
                                images |-> exclude_images,
                                auto_update |-> auto_update],
                          up)
    /\ BeginPass
    /\ passes' = passes + 1
    /\ UNCHANGED <<envFile, notifyVars, worldVars, clock, mode,
                   watchless_schedule, last_run, runs, t0, signalled>>

\* An iteration that calls run_update_check(): the configuration is read
\* again and a checker is constructed.
PollRun ==
    /\ pc = "poll"
    /\ ShouldRun(watchless_schedule, last_run, clock)
    /\ Len(runs) < MaxRuns
    /\ now' = clock
    /\ \E up \in BOOLEAN : ConstructChecker(load_env_file(envFile), up)
    /\ BeginPass
    /\ passes' = passes + 1
    /\ UNCHANGED <<envFile, notifyVars, worldVars, clock, mode,
                   watchless_schedule, last_run, runs, t0, signalled>>

\* Sleep with a pause of three times the length.
Sleep_long ==
    /\ pc = "sleep"
    /\ clock + 3 * SleepSecs <= MaxTime
    /\ clock' = clock + 3 * SleepSecs
    /\ pc' = "poll"
    /\ UNCHANGED <<envFile, notifyVars, worldVars, exitCode, schedVars,
                   policyVars, checkVars, updateVars, idx, ops, containers0>>

\* time.sleep(30).
Sleep ==
    /\ pc = "sleep"
    /\ clock + SleepSecs <= MaxTime
    /\ clock' = clock + SleepSecs
    /\ pc' = "poll"
    /\ UNCHANGED <<envFile, notifyVars, worldVars, exitCode, schedVars,
                   policyVars, checkVars, updateVars, idx, ops, containers0>>

(***************************************************************************)
(* check_for_updates.                                                      *)
(***************************************************************************)
\* self.client.containers.list(): the running containers are returned, or
\* the call raises and fetch_container_images returns the empty list.
FetchList ==
    /\ pc = "fetch"
    /\ \/ /\ ops' = Append(ops, Op("list", "-", "-", TRUE))
          /\ pc' = "fetch_loop"
       \/ /\ ops' = Append(ops, Op("list", "-", "-", FALSE))
          /\ pc' = "decide"
    /\ UNCHANGED <<envFile, notifyVars, worldVars, clock, exitCode, schedVars,
                   policyVars, checkVars, idx, updateVars, containers0>>

\* The loop of fetch_container_images over the listed containers, which
\* reads their attributes and issues no call; then check_for_updates
\* returns at once when nothing was collected.
Fetch ==
    /\ pc = "fetch_loop"
    /\ \E n \in 0..Len(Running(containers)) :
         /\ container_images' =
                fetch_container_images(Running(containers), n,
                                       exclude_containers, exclude_images)
         /\ fetch_error' = RaisedAt(Running(containers), n)
    /\ IF container_images' = <<>>
       THEN pc' = "decide" /\ idx' = 0
       ELSE pc' = "check" /\ idx' = 1
    /\ UNCHANGED <<envFile, notifyVars, worldVars, clock, exitCode, schedVars,
                   policyVars, updates_available, up_to_date, probed,
                   local_digest, remote_digest, updateVars, ops, containers0>>

\* `local_digest = self.get_local_digest(image_name)`: images.get and
\* the read of RepoDigests.
CheckLocal ==
    /\ pc = "check"
    /\ LET container == container_images[idx]
           image_name == container.image
       IN  /\ local_digest' = get_local_digest(local, image_name)
           /\ ops' = Append(ops, Op("images.get", container.name, "-",
                                    local[image_name].present))
    /\ pc' = "check_remote"
    /\ UNCHANGED <<envFile, notifyVars, worldVars, clock, exitCode, schedVars,
                   policyVars, container_images, updates_available,
                   up_to_date, probed, fetch_error, remote_digest, idx,
                   updateVars, containers0>>

\* `remote_digest = self.get_remote_digest(image_name)`: get_registry_data
\* and the read of the descriptor digest.
CheckRemote ==
    /\ pc = "check_remote"
    /\ LET container == container_images[idx]
           image_name == container.image
       IN  \E registry_data \in ProbeAnswers(registry[image_name]) :
             /\ remote_digest' = get_remote_digest(image_name, registry_data)
             /\ ops' = Append(ops, Op("get_registry_data", container.name,
                                      "-", ~registry_data.raised))
             /\ probed' = Append(probed,
                                 [container |-> container.name,
                                  entry |-> local[image_name],
                                  answer |-> registry_data,
                                  remote_digest |-> remote_digest'])
    /\ pc' = "check_classify"
    /\ UNCHANGED <<envFile, notifyVars, worldVars, clock, exitCode, schedVars,
                   policyVars, container_images, updates_available,
                   up_to_date, fetch_error, local_digest, idx, updateVars,
                   containers0>>

\* The rest of one iteration of the loop of check_for_updates: the two
\* digests are compared and the container is put on a list, or on none.
\* (The two locals are not read again before they are assigned again.)
CheckOne ==
    /\ pc = "check_classify"
    /\ LET container == container_images[idx]
           image_name == container.image
           branch == Classify(local_digest, remote_digest)
       IN  /\ updates_available' =
                  IF branch = "update"
                  THEN Append(updates_available,
                              [container |-> container.name,
                               container_id |-> container.id,
                               image |-> image_name,
                               local_digest |-> local_digest,
                               remote_digest |-> remote_digest])
                  ELSE updates_available
           /\ up_to_date' =
                  IF branch = "current"
                  THEN Append(up_to_date,
                              [container |-> container.name,
                               image |-> image_name])
                  ELSE up_to_date
    /\ local_digest' = NoDigest
    /\ remote_digest' = NoDigest
    /\ IF idx < Len(container_images)
       THEN pc' = "check" /\ idx' = idx + 1
       ELSE pc' = "decide" /\ idx' = 0
    /\ UNCHANGED <<envFile, notifyVars, worldVars, clock, exitCode, schedVars,
                   policyVars, container_images, probed, fetch_error,
                   updateVars, ops, containers0>>

\* Decide without the test of auto_update.
Decide_any_update ==
    /\ pc = "decide"
    /\ IF updates_available # <<>>
       THEN pc' = "u_get" /\ idx' = 1
       ELSE pc' = "run_end" /\ idx' = 0
    /\ UNCHANGED <<envFile, notifyVars, worldVars, clock, exitCode, schedVars,
                   policyVars, checkVars, updateVars, ops, containers0>>

\* `if auto_update and results['updates_available']`.
Decide ==
    /\ pc = "decide"
    /\ IF auto_update /\ updates_available # <<>>
       THEN pc' = "u_get" /\ idx' = 1
       ELSE pc' = "run_end" /\ idx' = 0
    /\ UNCHANGED <<envFile, notifyVars, worldVars, clock, exitCode, schedVars,
                   policyVars, checkVars, updateVars, ops, containers0>>

(***************************************************************************)
(* update_containers.                                                      *)
(***************************************************************************)
\* networks without the filter on "bridge".
networks_unfiltered(attached) == attached

\* The `networks` dict built before create: "bridge" is kept only when it
\* is the container's only network.
RECURSIVE KeepNetworks(_, _)
KeepNetworks(names, total) ==
    IF names = <<>> THEN <<>>
    ELSE IF Head(names) # "bridge" \/ total = 1
         THEN <<Head(names)>> \o KeepNetworks(Tail(names), total)
         ELSE KeepNetworks(Tail(names), total)

networks(attached) == KeepNetworks(attached, Len(attached))

\* The `network=` argument of containers.create.
CreateNetwork(attached) ==
    IF networks(attached) # <<>> THEN networks(attached)[1] ELSE None

\* The networks a container created with this argument is attached to.
CreatedNets(network) == IF network = None THEN <<"bridge">> ELSE <<network>>

container_info == updates_available[idx]

\* The loop of update_containers moves to the next entry.
NextEntry ==
    /\ idx' = idx + 1
    /\ pc' = IF idx < Len(updates_available) THEN "u_get" ELSE "run_end"
    /\ snapshot' = None
    /\ new_container' = 0
    /\ netIdx' = 0

\* Fails with the loop left at the first failure.
Fails_and_returns(op, arg, error) ==
    /\ failed' = Append(failed, [container |-> container_info.container,
                                 image |-> container_info.image,
                                 error |-> error])
    /\ ops' = Append(ops, Op(op, container_info.container, arg, FALSE))
    /\ successful' = successful
    /\ idx' = idx + 1
    /\ pc' = "run_end"
    /\ snapshot' = None
    /\ new_container' = 0
    /\ netIdx' = 0

\* The except branch: the entry is recorded in failed.
Fails(op, arg, error) ==
    /\ failed' = Append(failed, [container |-> container_info.container,
                                 image |-> container_info.image,
                                 error |-> error])
    /\ ops' = Append(ops, Op(op, container_info.container, arg, FALSE))
    /\ successful' = successful
    /\ NextEntry

\* The end of the try block: the entry is recorded in successful.
Succeeds ==
    /\ successful' = Append(successful,
                            [container |-> container_info.container,
                             image |-> container_info.image])
    /\ failed' = failed
    /\ NextEntry

\* containers.get(container_id) and the reads of container.attrs.
UpdateGet ==
    /\ pc = "u_get"
    /\ \/ /\ IndexOfId(containers, container_info.container_id) # 0
          /\ LET c == containers[IndexOfId(containers,
                                           container_info.container_id)]
             IN  snapshot' = [conf |-> c.conf, nets |-> c.nets]
          /\ ops' = Append(ops, Op("get", container_info.container, "-", TRUE))
          /\ pc' = "u_pull"
          /\ UNCHANGED <<idx, successful, failed, new_container, netIdx>>
       \/ Fails("get", "-", "InspectError")
    /\ UNCHANGED <<envFile, notifyVars, worldVars, clock, exitCode, schedVars,
                   policyVars, checkVars, containers0>>

\* UpdatePull with a failed pull going on to stop.
UpdatePull_ignored ==
    /\ pc = "u_pull"
    /\ \E ok \in BOOLEAN :
         /\ local' = IF ok
                     THEN [local EXCEPT ![container_info.image] =
                              ImageAt(container_info.image,
                                      registry[container_info.image])]
                     ELSE local
         /\ ops' = Append(ops, Op("pull", container_info.container, "-", ok))
    /\ pc' = "u_stop"
    /\ UNCHANGED <<idx, updateVars>>
    /\ UNCHANGED <<envFile, notifyVars, containers, registry, nextId, clock,
                   exitCode, schedVars, policyVars, checkVars, containers0>>

\* images.pull(image_name).
UpdatePull ==
    /\ pc = "u_pull"
    /\ \/ /\ local' = [local EXCEPT ![container_info.image] =
                          ImageAt(container_info.image,
                                  registry[container_info.image])]
          /\ ops' = Append(ops, Op("pull", container_info.container, "-", TRUE))
          /\ pc' = "u_stop"
          /\ UNCHANGED <<idx, updateVars>>
       \/ Fails("pull", "-", "PullError") /\ UNCHANGED local
    /\ UNCHANGED <<envFile, notifyVars, containers, registry, nextId, clock,
                   exitCode, schedVars, policyVars, checkVars, containers0>>

\* container.stop(timeout=10).
UpdateStop ==
    /\ pc = "u_stop"
    /\ \/ /\ containers' =
                [containers EXCEPT
                    ![IndexOfId(containers, container_info.container_id)]
                        .status = "exited"]
          /\ ops' = Append(ops, Op("stop", container_info.container,
                                   StopTimeout, TRUE))
          /\ pc' = "u_remove"
          /\ UNCHANGED <<idx, updateVars>>
       \/ Fails("stop", StopTimeout, "StopError") /\ UNCHANGED containers
    /\ UNCHANGED <<envFile, notifyVars, local, registry, nextId, clock,
                   exitCode, schedVars, policyVars, checkVars, containers0>>

\* UpdateRemove with a failed remove going on to create.
UpdateRemove_ignored ==
    /\ pc = "u_remove"
    /\ \E ok \in BOOLEAN :
         /\ containers' =
                IF ok
                THEN RemoveAt(containers,
                              IndexOfId(containers,
                                        container_info.container_id))
                ELSE containers
         /\ ops' = Append(ops,
                          Op("remove", container_info.container, "-", ok))
    /\ pc' = "u_create"
    /\ UNCHANGED <<idx, updateVars>>
    /\ UNCHANGED <<envFile, notifyVars, local, registry, nextId, clock,
                   exitCode, schedVars, policyVars, checkVars, containers0>>

\* container.remove().
UpdateRemove ==
    /\ pc = "u_remove"
    /\ \/ /\ containers' =
                RemoveAt(containers,
                         IndexOfId(containers, container_info.container_id))
          /\ ops' = Append(ops,
                           Op("remove", container_info.container, "-", TRUE))
          /\ pc' = "u_create"
          /\ UNCHANGED <<idx, updateVars>>
       \/ Fails("remove", "-", "RemoveError") /\ UNCHANGED containers
    /\ UNCHANGED <<envFile, notifyVars, local, registry, nextId, clock,
                   exitCode, schedVars, policyVars, checkVars, containers0>>

\* UpdateCreate without the restart_policy argument.
UpdateCreate_no_restart_policy ==
    /\ pc = "u_create"
    /\ \/ /\ ~NameTaken(containers, container_info.container)
          /\ containers' =
                <<[name |-> container_info.container,
                   id |-> nextId,
                   image |-> container_info.image,
                   nets |-> CreatedNets(CreateNetwork(snapshot.nets)),
                   status |-> "created",
                   conf |-> [Cmd |-> snapshot.conf.Cmd,
                             Env |-> snapshot.conf.Env,
                             Binds |-> snapshot.conf.Binds,
                             PortBindings |-> snapshot.conf.PortBindings,
                             RestartPolicy |-> Default]]>>
                \o containers
          /\ new_container' = nextId
          /\ nextId' = nextId + 1
          /\ ops' = Append(ops, Op("create", container_info.container,
                                   CreateNetwork(snapshot.nets), TRUE))
          /\ pc' = "u_start"
          /\ UNCHANGED <<idx, successful, failed, snapshot, netIdx>>
       \/ /\ Fails("create", CreateNetwork(snapshot.nets), "CreateError")
          /\ UNCHANGED <<containers, nextId>>
    /\ UNCHANGED <<envFile, notifyVars, local, registry, clock, exitCode,
                   schedVars, policyVars, checkVars, containers0>>

\* containers.create(...) with the captured configuration.
UpdateCreate ==
    /\ pc = "u_create"
    /\ \/ /\ ~NameTaken(containers, container_info.container)
          /\ containers' =
                <<[name |-> container_info.container,
                   id |-> nextId,
                   image |-> container_info.image,
                   nets |-> CreatedNets(CreateNetwork(snapshot.nets)),
                   status |-> "created",
                   conf |-> [Cmd |-> snapshot.conf.Cmd,
                             Env |-> snapshot.conf.Env,
                             Binds |-> snapshot.conf.Binds,
                             PortBindings |-> snapshot.conf.PortBindings,
                             RestartPolicy |-> snapshot.conf.RestartPolicy]]>>
                \o containers
          /\ new_container' = nextId
          /\ nextId' = nextId + 1
          /\ ops' = Append(ops, Op("create", container_info.container,
                                   CreateNetwork(snapshot.nets), TRUE))
          /\ pc' = "u_start"
          /\ UNCHANGED <<idx, successful, failed, snapshot, netIdx>>
       \/ /\ Fails("create", CreateNetwork(snapshot.nets), "CreateError")
          /\ UNCHANGED <<containers, nextId>>
    /\ UNCHANGED <<envFile, notifyVars, local, registry, clock, exitCode,
                   schedVars, policyVars, checkVars, containers0>>

\* new_container.start().
UpdateStart ==
    /\ pc = "u_start"
    /\ \/ /\ containers' =
                [containers EXCEPT
                    ![IndexOfId(containers, new_container)].status = "running"]
          /\ ops' = Append(ops, Op("start", container_info.container, "-", TRUE))
          /\ IF Len(networks(snapshot.nets)) > 1
             THEN pc' = "u_network" /\ netIdx' = 2
             ELSE pc' = "u_done" /\ netIdx' = netIdx
          /\ UNCHANGED <<idx, successful, failed, snapshot, new_container>>
       \/ Fails("start", "-", "StartError") /\ UNCHANGED containers
    /\ UNCHANGED <<envFile, notifyVars, local, registry, nextId, clock,
                   exitCode, schedVars, policyVars, checkVars, containers0>>

\* network = self.client.networks.get(net_name), for one of networks[1:].
UpdateNetworkGet ==
    /\ pc = "u_network"
    /\ LET net_name == networks(snapshot.nets)[netIdx]
       IN  \/ /\ ops' = Append(ops, Op("networks.get",
                                       container_info.container, net_name,
                                       TRUE))
              /\ pc' = "u_connect"
              /\ UNCHANGED <<idx, updateVars>>
           \/ Fails("networks.get", net_name, "NetworkError")
    /\ UNCHANGED <<envFile, notifyVars, worldVars, clock, exitCode, schedVars,
                   policyVars, checkVars, containers0>>

\* network.connect(new_container), for the network just looked up.
UpdateConnect ==
    /\ pc = "u_connect"
    /\ LET net_name == networks(snapshot.nets)[netIdx]
       IN  \/ /\ containers' =
                    [containers EXCEPT
                        ![IndexOfId(containers, new_container)].nets =
                            Append(@, net_name)]
              /\ ops' = Append(ops, Op("connect", container_info.container,
                                       net_name, TRUE))
              /\ IF netIdx < Len(networks(snapshot.nets))
                 THEN pc' = "u_network" /\ netIdx' = netIdx + 1
                 ELSE pc' = "u_done" /\ netIdx' = netIdx
              /\ UNCHANGED <<idx, successful, failed, snapshot,
                             new_container>>
           \/ /\ Fails("connect", net_name, "ConnectError")
              /\ UNCHANGED containers
    /\ UNCHANGED <<envFile, notifyVars, local, registry, nextId, clock,
                   exitCode, schedVars, policyVars, checkVars, containers0>>

\* The end of the try block, after the last runtime call for the entry:
\* successful.append(...), and the loop moves on.
UpdateDone ==
    /\ pc = "u_done"
    /\ Succeeds
    /\ UNCHANGED <<envFile, notifyVars, worldVars, clock, exitCode, schedVars,
                   policyVars, checkVars, ops, containers0>>

(***************************************************************************)
(* The end of a pass.                                                      *)
(***************************************************************************)
\* One-shot mode: main() returns.
FinishOneShot ==
    /\ pc = "run_end"
    /\ mode = "oneshot"
    /\ pc' = "exited"
    /\ exitCode' = 0
    /\ UNCHANGED <<envFile, notifyVars, worldVars, clock, schedVars,
                   policyVars, checkVars, updateVars, idx, ops, containers0>>

\* FinishScheduled with last_run set to the time the pass finished.
FinishScheduled_at_finish ==
    /\ pc = "run_end"
    /\ mode = "scheduled"
    /\ \E d \in RunDurations :
         /\ clock + d <= MaxTime
         /\ clock' = clock + d
         /\ runs' = Append(runs, [start |-> now, end |-> clock + d])
         /\ last_run' = clock + d
    /\ pc' = "sleep"
    /\ UNCHANGED <<envFile, notifyVars, worldVars, exitCode, mode,
                   watchless_schedule, now, t0, passes, signalled, policyVars,
                   checkVars, updateVars, idx, ops, containers0>>

\* Scheduled mode: run_update_check() returns after some time and the
\* loop sets last_run = now.
FinishScheduled ==
    /\ pc = "run_end"
    /\ mode = "scheduled"
    /\ \E d \in RunDurations :
         /\ clock + d <= MaxTime
         /\ clock' = clock + d
         /\ runs' = Append(runs, [start |-> now, end |-> clock + d])
    /\ last_run' = now
    /\ pc' = "sleep"
    /\ UNCHANGED <<envFile, notifyVars, worldVars, exitCode, mode,
                   watchless_schedule, now, t0, passes, signalled, policyVars,
                   checkVars, updateVars, idx, ops, containers0>>

(***************************************************************************)
(* The .env file between two ticks.                                        *)
(***************************************************************************)
\* The contents an operator's edit can leave a file with that excludes
\* nothing: the container "web" put on EXCLUDE_CONTAINERS, or an
\* AUTO_UPDATE that enables auto-update changed to false.
EnvEdits(file) ==
    IF file.EXCLUDE_CONTAINERS # {} \/ file.AUTO_UPDATE = FalseWord
    THEN {}
    ELSE {[file EXCEPT !.EXCLUDE_CONTAINERS = {"web"}]}
         \cup {[file EXCEPT !.AUTO_UPDATE = FalseWord] :
                   on \in {ParseAutoUpdate(file.AUTO_UPDATE)} \ {FALSE}}

\* The operator edits the .env file between two ticks, while the
\* scheduler loop sleeps after a pass; load_env_file reads the file anew
\* at the next call.  (The file is read at the start of a pass only, so
\* an edit later in the gap is the same edit to the program.)
EditEnv ==
    /\ mode = "scheduled"
    /\ pc = "sleep"
    /\ runs # <<>>
    /\ now = runs[Len(runs)].start
    /\ Len(runs) < MaxRuns
    /\ envFile' \in EnvEdits(envFile)
    /\ UNCHANGED <<notifyVars, worldVars, clock, pc, exitCode, schedVars,
                   policyVars, checkVars, updateVars, idx, ops, containers0>>

(***************************************************************************)
(* main(): KeyboardInterrupt.                                              *)
(***************************************************************************)
\* KeyboardInterrupt is raised at the statement the process is at.  It is
\* not an Exception, so no `except Exception` of update_containers or
\* run_update_check catches it: it reaches the `except KeyboardInterrupt`
\* of the scheduler loop, which calls sys.exit(0).
Interrupt ==
    /\ mode = "scheduled"
    /\ pc # "exited"
    /\ signalled' = pc
    /\ pc' = "exited"
    /\ exitCode' = 0
    /\ UNCHANGED <<envFile, notifyVars, worldVars, clock, mode,
                   watchless_schedule, now, last_run, runs, t0, passes,
                   policyVars, checkVars, updateVars, idx, ops, containers0>>

(***************************************************************************)
(* notification.py: __main__.                                              *)
(***************************************************************************)
\* What a call of a sink function can end in: the notification went out,
\* the function's except clause caught a failure, or an exception left the
\* function.
CatchAll == {"sent", "caught"}
CatchSome == {"sent", "caught", "raised"}

\* `setup[sink].lower() == 'true'`.
FlagIsTrue(sink) == Lower(setup[sink].value) = TrueWord

\* One `if` of __main__: the test of the flag, and the call of the sink
\* function when it holds.  An unset flag is the bool False, which has no
\* attribute `lower`: AttributeError ends the program.
SinkStep(sink, test, outcomes, next) ==
    IF ~setup[sink].set
    THEN /\ pc' = "exited"
         /\ exitCode' = 1
         /\ invoked' = invoked
    ELSE IF test
    THEN \E outcome \in outcomes :
           /\ invoked' = Append(invoked, [sink |-> sink, outcome |-> outcome])
           /\ IF outcome = "raised"
              THEN pc' = "exited" /\ exitCode' = 1
              ELSE pc' = next /\ exitCode' = IF next = "exited" THEN 0
                                                               ELSE exitCode
    ELSE /\ invoked' = invoked
         /\ pc' = next
         /\ exitCode' = IF next = "exited" THEN 0 ELSE exitCode

NotifyVarsKept ==
    UNCHANGED <<envFile, setup, dispatched, worldVars, clock, schedVars,
                policyVars, checkVars, updateVars, idx, ops, containers0>>

\* The module is loaded: load_dotenv(), then logging.basicConfig with
\* os.getenv("LOG_LEVEL", "INFO").upper() as level.  A string that names
\* no level raises ValueError, and the program ends with status 1 before
\* notification_setup() is called.
NotifyLevel(raw) == Upper(IF raw.set THEN raw.value ELSE INFO)

NotifyLoad ==
    /\ pc = "n_load"
    /\ IF BasicConfigRaises(NotifyLevel(envFile.LOG_LEVEL))
       THEN pc' = "exited" /\ exitCode' = 1
       ELSE pc' = "n_email" /\ exitCode' = exitCode
    /\ invoked' = invoked
    /\ NotifyVarsKept

\* What notification_mail can end in: `msg['From'] = mail_address` and
\* `msg['To'] = mail_reciever` are outside the try block, and raise
\* ValueError for an address with a line break in it.
MailOutcomes == CatchAll \cup {"raised"}

\* notification_mail: the headers are set, then smtplib is used inside
\* try/except Exception.
NotifyEmail ==
    /\ pc = "n_email"
    /\ SinkStep("email", FlagIsTrue("email"), MailOutcomes, "n_ntfy")
    /\ NotifyVarsKept

\* notification_ntfy: requests.post is inside try/except Exception.
NotifyNtfy ==
    /\ pc = "n_ntfy"
    /\ SinkStep("ntfy", FlagIsTrue("ntfy"), CatchAll, "n_gotify")
    /\ NotifyVarsKept

\* `setup['gotify'].lower == 'true'` compares the bound method with a
\* string: never equal.
NotifyGotify ==
    /\ pc = "n_gotify"
    /\ SinkStep("gotify", FALSE, CatchAll, "n_teams")
    /\ NotifyVarsKept

\* notfication_teams: pymsteams is used inside try/except Exception.
NotifyTeams ==
    /\ pc = "n_teams"
    /\ SinkStep("teams", FlagIsTrue("teams"), CatchAll, "n_slack")
    /\ NotifyVarsKept

\* notification_slack: only SlackApiError is caught.
NotifySlack ==
    /\ pc = "n_slack"
    /\ SinkStep("slack", FlagIsTrue("slack"), CatchSome, "exited")
    /\ NotifyVarsKept

Next ==
    \/ MainLogLevelRaises
    \/ MainOneShot
    \/ MainScheduled
    \/ PollSkip
    \/ PollRun
    \/ Sleep
    \/ FetchList
    \/ Fetch
    \/ CheckLocal
    \/ CheckRemote
    \/ CheckOne
    \/ Decide
    \/ UpdateGet
    \/ UpdatePull
    \/ UpdateStop
    \/ UpdateRemove
    \/ UpdateCreate
    \/ UpdateStart
    \/ UpdateNetworkGet
    \/ UpdateConnect
    \/ UpdateDone
    \/ FinishOneShot
    \/ FinishScheduled
    \/ EditEnv
    \/ Interrupt
    \/ NotifyLoad
    \/ NotifyEmail
    \/ NotifyNtfy
    \/ NotifyGotify
    \/ NotifyTeams
    \/ NotifySlack

Spec == Init /\ [][Next]_vars

(***************************************************************************)
(* Vocabulary of the properties.                                           *)
(***************************************************************************)
\* The container names recorded in a list of report entries.
NamesIn(entries) == {entries[i].container : i \in 1..Len(entries)}

\* The container names of every partition of the report.
Reported ==
    NamesIn(up_to_date) \cup NamesIn(updates_available)
    \cup NamesIn(successful) \cup NamesIn(failed)

\* p occurs in s as a run of consecutive characters.
IsSubstring(p, s) ==
    \E a \in 1..(Len(s) + 1) :
        /\ a + Len(p) - 1 <= Len(s)
        /\ \A k \in 1..Len(p) : s[a + k - 1] = p[k]

\* c is excluded by the policy of the current pass.
ExcludedByPolicy(c) ==
    \/ c.name \in exclude_containers
    \/ \E p \in exclude_images : IsSubstring(p, c.image)

\* The stages of the replacement of one container, in order.
StageOps == <<"get", "pull", "stop", "remove", "create", "start",
              "networks.get", "connect">>
MutatingOps == {"pull", "stop", "remove", "create", "start", "connect"}

\* The runtime calls issued for container name c, in order.
RECURSIVE OpsFor(_, _)
OpsFor(log, c) ==
    IF log = <<>> THEN <<>>
    ELSE IF Head(log).c = c
         THEN <<Head(log)>> \o OpsFor(Tail(log), c)
         ELSE OpsFor(Tail(log), c)

\* The container called c before the pass (c is running then).
Before(c) == CHOOSE x \in Range(containers0) : x.name = c

\* A pass has produced its final report.
PassDone == pc = "run_end"

\* The positions of the process once the loop of update_containers is over.
AfterUpdates == {"run_end", "exited", "sleep", "poll"}

(***************************************************************************)
(* C1.  A running container that the exclusion policy of the pass          *)
(* excludes (its name is in the excluded names, or some excluded image     *)
(* pattern is a substring of its image reference) is in no partition of    *)
(* the report, and no runtime call of the pass is issued for it.           *)
(***************************************************************************)
C1_ExcludedUntouched ==
    \A c \in Range(Running(containers0)) :
        ExcludedByPolicy(c) =>
            /\ c.name \notin Reported
            /\ \A i \in 1..Len(ops) : ops[i].c # c.name
            /\ \A i \in 1..Len(container_images) :
                   container_images[i].name # c.name

\* A pass that replaced one container while another one, excluded only by
\* an image pattern, was running.
C1_Witness ==
    /\ PassDone
    /\ successful # <<>>
    /\ \E c \in Range(Running(containers0)) :
          /\ c.name \notin exclude_containers
          /\ ExcludedByPolicy(c)

\* The lookup recorded in p obtained no local / no remote digest.
LocalAbsent(p) == ~p.entry.present \/ p.entry.RepoDigests = <<>>
RemoteAbsent(p) == p.answer.raised \/ p.answer.digest = <<>>

\* The number of looked-up containers whose digests were compared: all
\* of them, but for the one whose comparison is due (or was due when the
\* process was interrupted).
Compared ==
    IF pc = "check_classify"
       \/ (pc = "exited" /\ signalled = "check_classify")
    THEN Len(probed) - 1
    ELSE Len(probed)

(***************************************************************************)
(* C2.  Every eligible container is classified by its digest pair: with    *)
(* either digest absent it is in neither up_to_date nor updates_available  *)
(* (nor successful, nor failed); with both present and equal it is in      *)
(* up_to_date only; with both present and different it is in               *)
(* updates_available only.  An absent digest does not stop the loop: once  *)
(* the comparison is over, every eligible container was looked up.         *)
(***************************************************************************)
C2_Classification ==
    /\ \A i \in 1..Len(probed) : probed[i].container = container_images[i].name
    /\ \A i \in 1..Compared :
         LET p == probed[i] IN
         /\ (LocalAbsent(p) \/ RemoteAbsent(p)) =>
                p.container \notin Reported
         /\ (~LocalAbsent(p) /\ ~RemoteAbsent(p)
               /\ p.entry.RepoDigests[1] = p.remote_digest) =>
                /\ p.container \in NamesIn(up_to_date)
                /\ p.container \notin NamesIn(updates_available)
         /\ (~LocalAbsent(p) /\ ~RemoteAbsent(p)
               /\ p.entry.RepoDigests[1] # p.remote_digest) =>
                /\ p.container \in NamesIn(updates_available)
                /\ p.container \notin NamesIn(up_to_date)
    /\ pc \notin {"main", "poll", "sleep", "fetch", "check", "check_remote",
                  "check_classify", "exited"} =>
           Len(probed) = Len(container_images)
    /\ pc \in {"check", "check_remote"} => Len(probed) = idx - 1
    /\ pc = "check_classify" => Len(probed) = idx

\* A finished comparison in which the first container had an absent
\* digest and the one after it was classified as up to date.
C2_Witness ==
    /\ PassDone
    /\ Len(probed) = 2
    /\ LocalAbsent(probed[1]) \/ RemoteAbsent(probed[1])
    /\ probed[2].container \in NamesIn(up_to_date)

(***************************************************************************)
(* C3.  With auto_update false the pass records nothing in successful or   *)
(* failed, issues no pull, stop, remove, create, start or network connect, *)
(* and leaves the runtime's containers as they were.                       *)
(***************************************************************************)
C3_NoAutoUpdateNoChange ==
    ~auto_update =>
        /\ successful = <<>>
        /\ failed = <<>>
        /\ \A i \in 1..Len(ops) : ops[i].op \notin MutatingOps
        /\ containers = containers0

\* A finished pass that found a stale container with auto_update off.
C3_Witness ==
    /\ PassDone
    /\ ~auto_update
    /\ updates_available # <<>>

(***************************************************************************)
(* C4.  When the pull for a stale container fails, the container is        *)
(* recorded in failed, no stop, remove, create or start is issued for it,  *)
(* the original container keeps running under its original id, and the     *)
(* loop goes on with the next entry.                                       *)
(***************************************************************************)
C4_PullFailure ==
    \A i \in 1..Len(ops) :
        (ops[i].op = "pull" /\ ~ops[i].ok) =>
            LET c == ops[i].c IN
            /\ c \in NamesIn(failed)
            /\ \A j \in 1..Len(ops) :
                   ops[j].c = c =>
                       ops[j].op \notin {"stop", "remove", "create", "start"}
            /\ \E x \in Range(containers) :
                   /\ x.name = c
                   /\ x.id = Before(c).id
                   /\ x.status = "running"
            /\ i = Len(ops) =>
                   \E k \in 1..Len(updates_available) :
                       /\ updates_available[k].container = c
                       /\ IF k < Len(updates_available)
                          THEN pc = "u_get" /\ idx = k + 1
                          ELSE pc \in AfterUpdates

\* A finished pass whose first entry failed at pull and whose second entry
\* was replaced.
C4_Witness ==
    /\ PassDone
    /\ Len(updates_available) = 2
    /\ \E i \in 1..Len(ops) :
          /\ ops[i].op = "pull"
          /\ ~ops[i].ok
          /\ ops[i].c = updates_available[1].container
    /\ updates_available[2].container \in NamesIn(successful)

\* The error a failing stage is reported with.
StageError(op) ==
    CASE op = "get" -> "InspectError"
      [] op = "pull" -> "PullError"
      [] op = "stop" -> "StopError"
      [] op = "remove" -> "RemoveError"
      [] op = "create" -> "CreateError"
      [] op = "start" -> "StartError"
      [] op = "networks.get" -> "NetworkError"
      [] op = "connect" -> "ConnectError"

(***************************************************************************)
(* C5.  With auto_update on, every entry of updates_available ends the     *)
(* pass in exactly one of successful and failed.  A stage that fails       *)
(* records the container in failed with that stage's error, never in       *)
(* successful, and is the last call issued for that container; the         *)
(* entries after it are still processed.                                   *)
(***************************************************************************)
C5_ExactlyOneOutcome ==
    /\ NamesIn(successful) \cap NamesIn(failed) = {}
    /\ (PassDone /\ auto_update) =>
           NamesIn(updates_available) =
               NamesIn(successful) \cup NamesIn(failed)
    /\ \A i \in 1..Len(ops) :
         (ops[i].op \in Range(StageOps) /\ ~ops[i].ok) =>
             /\ \E k \in 1..Len(failed) :
                    /\ failed[k].container = ops[i].c
                    /\ failed[k].error = StageError(ops[i].op)
             /\ ops[i].c \notin NamesIn(successful)
             /\ \A j \in (i + 1)..Len(ops) : ops[j].c # ops[i].c

\* A finished pass whose first entry failed at start, after its pull
\* succeeded, and whose second entry was replaced.
C5_Witness ==
    /\ PassDone
    /\ Len(updates_available) = 2
    /\ \E k \in 1..Len(failed) :
          /\ failed[k].container = updates_available[1].container
          /\ failed[k].error = "StartError"
    /\ updates_available[2].container \in NamesIn(successful)

\* The networks a replacement is expected on, given the old container's.
NotBridge(n) == n # "bridge"

ExpectedNets(old) == IF Len(old) > 1 THEN SelectSeq(old, NotBridge) ELSE old

\* The arguments of the calls named op in a log, in order.
RECURSIVE ArgsOf(_, _)
ArgsOf(log, op) ==
    IF log = <<>> THEN <<>>
    ELSE IF Head(log).op = op
         THEN <<Head(log).arg>> \o ArgsOf(Tail(log), op)
         ELSE ArgsOf(Tail(log), op)

(***************************************************************************)
(* C6.  After a successful replacement the new container is attached to    *)
(* the old container's networks, without "bridge" when the old container   *)
(* had more than one network: the first of them is given to create and     *)
(* each remaining one is connected, in order, after start.                 *)
(***************************************************************************)
C6_NetworksPreserved ==
    \A c \in NamesIn(successful) :
        LET expected == ExpectedNets(Before(c).nets)
            log == OpsFor(ops, c)
        IN  /\ \E x \in Range(containers) :
                  /\ x.name = c
                  /\ x.id # Before(c).id
                  /\ x.status = "running"
                  /\ x.nets = expected
            /\ ArgsOf(log, "create") = <<expected[1]>>
            /\ ArgsOf(log, "networks.get") = Tail(expected)
            /\ ArgsOf(log, "connect") = Tail(expected)
            /\ \A i, j \in 1..Len(log) :
                   (log[i].op = "start" /\ log[j].op = "connect") => i < j

\* A finished pass that replaced a container whose only network was
\* "bridge" and a container attached to x, bridge and y.
C6_Witness ==
    /\ PassDone
    /\ \E c \in NamesIn(successful) : Before(c).nets = <<"bridge">>
    /\ \E c \in NamesIn(successful) : Before(c).nets = <<"x", "bridge", "y">>

(***************************************************************************)
(* Vocabulary of the scheduler properties.                                 *)
(***************************************************************************)
PassPcs == {"fetch", "fetch_loop", "check", "check_remote", "check_classify",
            "decide", "u_get", "u_pull", "u_stop", "u_remove", "u_create",
            "u_start", "u_network", "u_connect", "u_done", "run_end"}

InPass == pc \in PassPcs

\* The start times of the scheduled passes so far: the completed ones and
\* the one that run_update_check() is in (or left through sys.exit, or
\* through KeyboardInterrupt).
Started ==
    [i \in 1..Len(runs) |-> runs[i].start]
    \o (IF /\ mode = "scheduled"
           /\ \/ InPass
              \/ pc = "exited" /\ exitCode = 1
              \/ pc = "exited" /\ signalled \in PassPcs
        THEN <<now>> ELSE <<>>)

\* The fire times of the cron expression in use, within the horizon.
Fires ==
    {k * CronPeriod(watchless_schedule) :
        k \in 1..(MaxTime \div CronPeriod(watchless_schedule))}

\* Some fire time lies in (a, b].
FireWithin(a, b) == \E f \in Fires : a < f /\ f <= b

\* Some fire time lies strictly between a and b.
FireInside(a, b) == \E f \in Fires : a < f /\ f < b

Dist(a, b) == IF a >= b THEN a - b ELSE b - a

(***************************************************************************)
(* C7.  Two consecutive scheduled passes straddle a fire time:             *)
(* cronNext(expr, run1.start) <= run2.start.  last_run only moves forward  *)
(* (it is the start of the latest completed pass, and starts increase)     *)
(* and is never later than the current time.                               *)
(***************************************************************************)
C7_RunsStraddleFire ==
    mode = "scheduled" =>
        /\ LET started == Started
           IN  \A i \in 1..(Len(started) - 1) :
                   /\ cronNext(watchless_schedule, started[i])
                          <= started[i + 1]
                   /\ started[i] < started[i + 1]
        /\ last_run = IF runs = <<>> THEN NoRun ELSE runs[Len(runs)].start
        /\ last_run <= now
        /\ now <= clock

\* Three scheduled passes have completed.
C7_Witness == mode = "scheduled" /\ Len(runs) = 3

(***************************************************************************)
(* C8.  With every pass shorter than the cron period, the first scheduled  *)
(* pass starts within 30 s of the first fire time after the start of the   *)
(* process, and the second pass within 30 s of the fire time after that.   *)
(***************************************************************************)
C8_RunsNearFires ==
    (/\ mode = "scheduled"
     /\ pc # "exited"
     /\ \A i \in 1..Len(runs) :
            runs[i].end - runs[i].start < CronPeriod(watchless_schedule)) =>
        LET first == cronNext(watchless_schedule, t0)
            second == cronNext(watchless_schedule, first)
        IN  /\ Len(Started) >= 1 => Dist(Started[1], first) <= SleepSecs
            /\ Len(Started) >= 2 => Dist(Started[2], second) <= SleepSecs

(***************************************************************************)
(* C9.  As claimed: passes never overlap, and a fire time that falls       *)
(* inside a pass triggers no pass of its own, the next pass waiting for    *)
(* the first fire time after the finish of that pass.                      *)
(***************************************************************************)
C9_Coalesced ==
    (mode = "scheduled" /\ pc # "exited") =>
        \A i \in 1..Len(runs) :
            i + 1 <= Len(Started) =>
                /\ runs[i].end <= Started[i + 1]
                /\ FireInside(runs[i].start, runs[i].end) =>
                       cronNext(watchless_schedule, runs[i].end)
                           <= Started[i + 1]

(***************************************************************************)
(* C9, amended.  Passes never overlap.  A fire time that falls inside a    *)
(* pass starts nothing while that pass is active, but it does trigger a    *)
(* pass of its own: the next eligible fire time is computed from the       *)
(* start of the active pass, so the first loop iteration after the pass    *)
(* (one sleep after its finish) starts the next pass, and an iteration     *)
(* skips only when no fire time has passed since the latest pass started.  *)
(***************************************************************************)
C9_FireDuringRunIsServed ==
    mode = "scheduled" =>
        /\ LET started == Started
           IN  \A i \in 1..Len(runs) :
                   i + 1 <= Len(started) =>
                       /\ runs[i].end <= started[i + 1]
                       /\ FireWithin(runs[i].start, runs[i].end) =>
                              started[i + 1] = runs[i].end + SleepSecs
        /\ (pc = "sleep" /\ runs # <<>> /\ now > runs[Len(runs)].end) =>
               ~FireWithin(runs[Len(runs)].start, now)

\* A pass during which a fire time fell, followed by another pass.
C9_Witness ==
    /\ mode = "scheduled"
    /\ Len(Started) >= 2
    /\ FireInside(runs[1].start, runs[1].end)

\* The duration of the completed pass that was active at time f (0: none).
ActiveDuration(f) ==
    IF \E i \in 1..Len(runs) : runs[i].start < f /\ f <= runs[i].end
    THEN LET i == CHOOSE k \in 1..Len(runs) :
                      runs[k].start < f /\ f <= runs[k].end
         IN  runs[i].end - runs[i].start
    ELSE 0

(***************************************************************************)
(* C10.  Every fire time F after the start of the first pass is answered:  *)
(* some pass starts at a time t with F <= t <= F + 30 s + the duration of  *)
(* the pass active at F (if any), also when a pass outlasts a cron period. *)
(***************************************************************************)
C10_EveryFireAnswered ==
    LET started == Started
    IN  (mode = "scheduled" /\ Len(started) >= 1) =>
            \A f \in Fires :
                (started[1] < f /\ f <= now) =>
                    \E j \in 1..Len(started) :
                        /\ f <= started[j]
                        /\ started[j] <= f + SleepSecs + ActiveDuration(f)

\* A pass that outlasted a whole cron period, followed by another pass.
C10_Witness ==
    /\ mode = "scheduled"
    /\ Len(Started) >= 2
    /\ runs[1].end - runs[1].start > CronPeriod(watchless_schedule)
    /\ FireWithin(runs[1].start, runs[1].end)

(***************************************************************************)
(* C11.  KeyboardInterrupt does not cut a replacement short: when the      *)
(* process has exited on the signal, the exit code is 0 and every          *)
(* container the pass had stopped has the outcome of its replacement       *)
(* recorded in successful or in failed, with a container of that name      *)
(* running again unless a stage failed.                                    *)
(***************************************************************************)
C11_SignalBetweenTicks ==
    (pc = "exited" /\ signalled # None) =>
        /\ exitCode = 0
        /\ \A i \in 1..Len(ops) :
               (ops[i].op = "stop" /\ ops[i].ok) =>
                   /\ ops[i].c \in NamesIn(successful) \cup NamesIn(failed)
                   /\ ops[i].c \notin NamesIn(failed) =>
                          \E x \in Range(containers) :
                              x.name = ops[i].c /\ x.status = "running"

\* The cron expression main() loaded from the .env file is invalid.
InvalidCron ==
    ~(ParseSchedule(envFile.WATCHLESS_SCHEDULE) \in ValidCrons)

(***************************************************************************)
(* C12.  With an invalid cron expression main() takes the one-shot branch: *)
(* the scheduler loop is never entered, exactly one pass is begun, and     *)
(* the process ends with exit code 0 once that pass has produced its       *)
(* report (or with exit code 1, before any runtime call, when the Docker   *)
(* daemon is unreachable as that pass begins).                             *)
(***************************************************************************)
C12_InvalidCronOneShot ==
    (InvalidCron /\ pc # "main") =>
        /\ mode = "oneshot"
        /\ pc \notin {"poll", "sleep"}
        /\ runs = <<>>
        /\ last_run = NoRun
        /\ passes = 1
        /\ pc = "exited" =>
               \/ /\ exitCode = 0
                  /\ Len(ops) >= 1
                  /\ ops[1].op = "list"
                  /\ Len(probed) = Len(container_images)
                  /\ auto_update =>
                         NamesIn(updates_available) =
                             NamesIn(successful) \cup NamesIn(failed)
               \/ /\ exitCode = 1
                  /\ ops = <<>>

(***************************************************************************)
(* C13.  With WATCHLESS_SCHEDULE given an empty value in the .env file,    *)
(* the process runs in one-shot mode: a single pass and no scheduler loop. *)
(* The default '0 0 * * *' applies only when the key is not given: then    *)
(* the scheduler loop runs with that expression.                           *)
(***************************************************************************)
C13_EmptyScheduleOneShot ==
    pc \in PassPcs \cup {"poll", "sleep"} =>
        /\ envFile.WATCHLESS_SCHEDULE = "" =>
               /\ mode = "oneshot"
               /\ passes = 1
               /\ runs = <<>>
        /\ envFile.WATCHLESS_SCHEDULE = None =>
               /\ mode = "scheduled"
               /\ watchless_schedule = CronDefault

(***************************************************************************)
(* C14.  Auto-update is enabled exactly when the AUTO_UPDATE value,        *)
(* lower-cased, equals "true": in every pass the flag in use is that       *)
(* comparison, and with any other value no pull, stop, remove, create,     *)
(* start or connect is issued.                                             *)
(***************************************************************************)
C14_AutoUpdateOnlyTrue ==
    (passes >= 1 /\ ~(pc = "exited" /\ exitCode = 1)) =>
        /\ auto_update <=> (Lower(envFile.AUTO_UPDATE) = TrueWord)
        /\ Lower(envFile.AUTO_UPDATE) # TrueWord =>
               /\ \A i \in 1..Len(ops) : ops[i].op \notin MutatingOps
               /\ successful = <<>>
               /\ failed = <<>>

\* A pass of the process has come to its end: the one-shot pass, or a
\* scheduled pass after which the loop sleeps.
PassOver ==
    \/ mode = "oneshot" /\ pc = "exited" /\ exitCode = 0
    \/ mode = "scheduled" /\ pc = "sleep" /\ runs # <<>>

(***************************************************************************)
(* C15.  Every pass ends by handing its report to the notification         *)
(* dispatcher exactly once: when a pass is over, as many reports were      *)
(* dispatched as passes were begun, and the latest one carries the         *)
(* outcomes the pass recorded.                                             *)
(***************************************************************************)
C15_ReportDispatched ==
    PassOver =>
        /\ Len(dispatched) = passes
        /\ dispatched[Len(dispatched)] =
               [up_to_date |-> up_to_date,
                updates_available |-> updates_available,
                successful |-> successful,
                failed |-> failed]

\* notification.py has run to its end, normally or not.
NotifyOver == pc = "exited" /\ mode = "notification"

\* The sinks from the k-th on whose enable flag is the string "true"
\* (in any letter case), in declaration order.
EnabledFrom(k) ==
    LET IsOn(sink) == setup[sink].set /\ Lower(setup[sink].value) = TrueWord
    IN  SelectSeq(SubSeq(Sinks, k, Len(Sinks)), IsOn)

\* The sinks that were invoked, in the order of their invocation.
InvokedSinks == [i \in 1..Len(invoked) |-> invoked[i].sink]

(***************************************************************************)
(* C16.  On a dispatch that has run to its end, every sink whose enable    *)
(* flag is the string "true" was invoked exactly once, in the order        *)
(* email, ntfy, gotify, teams, slack, and no other sink was invoked.       *)
(***************************************************************************)
C16_EnabledSinksInOrder ==
    (NotifyOver /\ exitCode = 0) => InvokedSinks = EnabledFrom(1)

(***************************************************************************)
(* C17.  Once the module is loaded, nothing raises out of the dispatcher   *)
(* and nothing keeps a later sink from its call: the program ends with     *)
(* exit code 0, whatever flags are unset and whatever sinks fail, and      *)
(* every enabled sink was invoked, whatever happened at the sinks before   *)
(* it.  (gotify is left to C16.)                                           *)
(***************************************************************************)
C17_SinkFailureIsolated ==
    (NotifyOver /\ ~BasicConfigRaises(NotifyLevel(envFile.LOG_LEVEL))) =>
        /\ exitCode = 0
        /\ \A k \in 1..Len(Sinks) :
               \A sink \in Range(EnabledFrom(k)) :
                   sink # "gotify" => sink \in Range(InvokedSinks)

\* The fleet the pass began with is already updated: every running
\* container is a replacement created by an earlier pass of this process,
\* and its image is in the local store at the registry's current digest.
AlreadyUpdated ==
    /\ containers0 # <<>>
    /\ \A c \in Range(containers0) :
           /\ c.status = "running"
           /\ c.id >= 3
           /\ local[c.image] = ImageAt(c.image, registry[c.image])

(***************************************************************************)
(* C18.  A pass that follows a pass which replaced every stale container,  *)
(* with the registry unchanged, reports an empty updates_available and     *)
(* issues no pull, stop, remove, create, start or connect, whatever the    *)
(* form of the image reference.                                            *)
(***************************************************************************)
C18_SecondRunFindsNothing ==
    (mode = "scheduled" /\ runs # <<>> /\ InPass /\ AlreadyUpdated) =>
        /\ updates_available = <<>>
        /\ \A i \in 1..Len(ops) : ops[i].op \notin MutatingOps

\* The loop of fetch_container_images has come to its end (it is not
\* under way, and was not when the process was interrupted).
FetchOver ==
    /\ pc # "fetch_loop"
    /\ ~(pc = "exited" /\ signalled = "fetch_loop")

(***************************************************************************)
(* C19.  An error while reading one running container skips only that      *)
(* container: every other running container that the policy does not       *)
(* exclude, those listed after the failing one included, is collected,     *)
(* and is looked up once the comparison is over.                           *)
(***************************************************************************)
C19_ReadErrorSkipsOne ==
    \A i \in 1..Len(ops) :
        (ops[i].op = "list" /\ ops[i].ok /\ FetchOver) =>
            \A c \in Range(Running(containers0)) :
                (~ExcludedByPolicy(c) /\ c.name # fetch_error) =>
                    /\ \E k \in 1..Len(container_images) :
                           container_images[k].name = c.name
                    /\ pc = "run_end" =>
                           \E k \in 1..Len(probed) :
                               probed[k].container = c.name

(***************************************************************************)
(* C20.  Once the scheduler loop is entered, no error inside a tick ends   *)
(* the process: it ends only on KeyboardInterrupt, with exit code 0.       *)
(***************************************************************************)
C20_TickErrorsContained ==
    (mode = "scheduled" /\ pc = "exited") =>
        /\ signalled # None
        /\ exitCode = 0

\* What load_env_file makes of the .env file as it is now.  (In scheduled
\* mode the file changes between passes only, so during a pass this is
\* the file as it was when the pass began.)
FileConfig == load_env_file(envFile)

\* c is excluded by the policy the .env file holds.
ExcludedByFile(c) ==
    \/ c.name \in FileConfig.containers
    \/ \E p \in FileConfig.images : IsSubstring(p, c.image)

\* A container called "web" that an earlier pass of this process created
\* was running when the pass began.
ReplacedWebRunning ==
    \E c \in Range(Running(containers0)) : c.name = "web" /\ c.id >= 3

(***************************************************************************)
(* C21.  In scheduled mode every pass works with the exclusion sets and    *)
(* the auto_update flag that the .env file holds when the pass begins,     *)
(* whatever earlier passes read: a container the file excludes is in no    *)
(* partition of the report and no runtime call is issued for it, and with  *)
(* auto_update off in the file nothing is replaced.                        *)
(***************************************************************************)
C21_ConfigRereadEachTick ==
    (mode = "scheduled" /\ InPass) =>
        /\ exclude_containers = FileConfig.containers
        /\ exclude_images = FileConfig.images
        /\ auto_update = FileConfig.auto_update
        /\ \A c \in Range(Running(containers0)) :
               ExcludedByFile(c) =>
                   /\ c.name \notin Reported
                   /\ \A i \in 1..Len(ops) : ops[i].c # c.name
        /\ ~FileConfig.auto_update =>
               /\ \A i \in 1..Len(ops) : ops[i].op \notin MutatingOps
               /\ successful = <<>>
               /\ failed = <<>>

\* A finished pass that left out "web", excluded by an edit of the file
\* made after an earlier pass had replaced it.
C21_Witness ==
    /\ mode = "scheduled"
    /\ PassDone
    /\ ReplacedWebRunning
    /\ "web" \in exclude_containers
    /\ ops # <<>>

\* The calls of the replacement stages issued for container name c, in
\* order.
RECURSIVE StageLog(_, _)
StageLog(log, c) ==
    IF log = <<>> THEN <<>>
    ELSE IF Head(log).c = c /\ Head(log).op \in Range(StageOps)
         THEN <<Head(log)>> \o StageLog(Tail(log), c)
         ELSE StageLog(Tail(log), c)

\* The place of a stage in the order get, pull, stop, remove, create,
\* start, networks.get, connect.
StageRank(op) == CHOOSE k \in 1..Len(StageOps) : StageOps[k] = op

\* The positions of update_containers after the reads of container.attrs.
AfterSnapshot == {"u_pull", "u_stop", "u_remove", "u_create", "u_start",
                  "u_network", "u_connect", "u_done"}

(***************************************************************************)
(* C22.  For every container being replaced the runtime calls are issued   *)
(* in the order get (inspect and snapshot), pull, stop with a timeout of   *)
(* 10 s, remove, create, start, then networks.get and connect (once per    *)
(* further network), each only after the one before it succeeded.  From    *)
(* pull on, the snapshot holds the settings and networks the old           *)
(* container had, and the container that create made has the old           *)
(* container's name and image reference and exactly the captured Cmd,      *)
(* Env, Binds, PortBindings and RestartPolicy.                             *)
(***************************************************************************)
C22_StagesInOrder ==
    /\ \A c \in NamesIn(updates_available) :
           LET log == StageLog(ops, c) IN
           /\ log # <<>> => log[1].op = "get"
           /\ \A i \in 1..(Len(log) - 1) :
                  /\ log[i].ok
                  /\ \/ StageRank(log[i + 1].op) = StageRank(log[i].op) + 1
                     \/ /\ log[i].op = "connect"
                        /\ log[i + 1].op = "networks.get"
           /\ \A i \in 1..Len(log) :
                  /\ log[i].op = "stop" => log[i].arg = StopTimeout
                  /\ (log[i].op = "create" /\ log[i].ok) =>
                         \E x \in Range(containers) :
                             /\ x.name = c
                             /\ x.id # Before(c).id
                             /\ x.image = Before(c).image
                             /\ x.conf = Before(c).conf
    /\ pc \in AfterSnapshot =>
           /\ snapshot.conf = Before(container_info.container).conf
           /\ snapshot.nets = Before(container_info.container).nets

\* A finished pass that carried two containers through every stage, one of
\* them with a further network to connect.
C22_Witness ==
    /\ PassDone
    /\ Len(successful) = 2
    /\ \E i \in 1..Len(ops) : ops[i].op = "connect" /\ ops[i].ok

\* The containers that carry the name c.
Named(c) == {i \in 1..Len(containers) : containers[i].name = c}

(***************************************************************************)
(* C23.  At most one container carries a given name, in every state of a   *)
(* replacement.  create is issued for a name only right after the remove   *)
(* of the old container succeeded; when stop or remove failed, no create   *)
(* is issued for that name in the pass and the old container still         *)
(* carries it.                                                             *)
(***************************************************************************)
C23_OneContainerPerName ==
    /\ \A i, j \in 1..Len(containers) :
           containers[i].name = containers[j].name => i = j
    /\ \A c \in NamesIn(updates_available) :
           LET log == StageLog(ops, c) IN
           /\ \A i \in 1..Len(log) :
                  log[i].op = "create" =>
                      /\ i > 1
                      /\ log[i - 1].op = "remove"
                      /\ log[i - 1].ok
           /\ (\E i \in 1..Len(log) :
                   log[i].op \in {"stop", "remove"} /\ ~log[i].ok) =>
                  /\ \A i \in 1..Len(log) : log[i].op # "create"
                  /\ \E i \in Named(c) : containers[i].id = Before(c).id

\* A finished pass in which the remove of one container failed and another
\* container was replaced.
C23_Witness ==
    /\ PassDone
    /\ successful # <<>>
    /\ \E k \in 1..Len(failed) : failed[k].error = "RemoveError"

====
